---- MODULE Spec2Model ----
(***************************************************************************)
(* Fraud heuristics of backend/services/mlService.js (MLService) and the   *)
(* server start-up of backend/server.js that gates the HTTP route          *)
(* GET /api/claims/fraud-detection.                                        *)
(*                                                                         *)
(* Numbers.  Scores are IEEE-754 doubles.  A double x close to a multiple  *)
(* of 0.1 is written <<t, e>> with x = t/10 + e/(10 * 2^56): t counts      *)
(* tenths and e is the exact distance of the double from that decimal, in  *)
(* units of 2^-56 / 10.  Sums and integer multiples are formed exactly and *)
(* then rounded to the nearest double, ties to even, as the hardware does. *)
(*                                                                         *)
(* Dates.  An incidentDate is a number of hours after Mon Jan 01 2024      *)
(* 00:00 local time; every date of the model lies in January 2024.         *)
(***************************************************************************)
EXTENDS Integers, Sequences, FiniteSets, TLC

VARIABLES index, serverState, initialized, anomalyJobs, fraudModels,
          query, claims, fraudResults, calls,
          mlJobs, mlCalls, rejected, mlEnabled, wrapped, created

vars == <<index, serverState, initialized, anomalyJobs, fraudModels,
          query, claims, fraudResults, calls,
          mlJobs, mlCalls, rejected, mlEnabled, wrapped, created>>

\* the anomaly jobs of the cluster, the calls the last initialize() made and
\* whether it rejected
cluster == <<mlJobs, mlCalls, rejected>>

\* ELASTIC_ML_ANOMALY_DETECTION_ENABLED, whether the Elasticsearch client of
\* the build answers { body, statusCode, ... } (7.x) or the body itself (8.x),
\* and the answer to the last POST /api/claims
posting == <<mlEnabled, wrapped, created>>

----------------------------------------------------------------------------
(* Bounds of the model *)

MaxVinBatch == 3

MaxClaimantBatch == 4

MaxOutlierBatch == 4

\* claims in a batch with incomplete documents
MaxIncompleteBatch == 5

\* invocations of detectFraud in flight together
MaxCalls == 2

\* claims in the index the concurrent invocations search
MaxCallBatch == 2
MaxPosts == 2

----------------------------------------------------------------------------
(* IEEE-754 double arithmetic around decimal tenths *)

FracBits == 56

\* 2^56 mod (10 * 2^j), for j < 56: 2^56 = 2^(j+1) * 2^(55-j), and the powers
\* of two are 1, 2, 4, 3, 1, ... modulo 5
Pow2ModTen(j) == 2^(j + 1) * <<1, 2, 4, 3>>[((FracBits - 1 - j) % 4) + 1]

\* x >= 2^j / 16 for x = <<t, e>>
AtLeast(t, e, j) == (8 * t > 5 * 2^j) \/ (8 * t = 5 * 2^j /\ e >= 0)

RECURSIVE ExpFrom(_, _, _)
ExpFrom(t, e, j) == IF AtLeast(t, e, j + 1) THEN ExpFrom(t, e, j + 1) ELSE j

\* the doubles around x = <<t, e>> lie 2^j * 2^-56 apart: this is j
UlpExp[x \in Int \X Int] == ExpFrom(x[1], x[2], 0)

\* <<t, e>> moved to the nearest multiple of 2^j * 2^-56, for y = <<t, e, j>>
RoundAt[y \in Int \X Int \X Int] ==
    LET t == y[1]
        e == y[2]
        m == 10 * 2^y[3]
        r == (t * Pow2ModTen(y[3]) + e) % m
    IN  IF 2 * r < m THEN <<t, e - r>>
        ELSE IF 2 * r > m THEN <<t, e + m - r>>
        \* a tie goes to the neighbour whose last mantissa bit is 0
        ELSE IF (t * Pow2ModTen(y[3] + 1) + e) % (2 * m) < m
             THEN <<t, e - r>>
             ELSE <<t, e + m - r>>

\* the double nearest to the exact value x = <<t, e>>, ties to even
Nearest[x \in Int \X Int] ==
    IF x[1] = 0 /\ x[2] = 0 THEN x ELSE RoundAt[<<x[1], x[2], UlpExp[x]>>]

RoundToDouble(t, e) == Nearest[<<t, e>>]

\* the double a decimal literal with one fractional digit denotes: 0.9 is Lit(9)
Lit(t) == RoundToDouble(t, 0)

\* the doubles of the literals 0.1 .. 0.9 of the source, converted once
Decimal == <<Lit(1), Lit(2), Lit(3), Lit(4), Lit(5), Lit(6), Lit(7), Lit(8), Lit(9)>>

Zero == <<0, 0>>

\* a + b for p = <<a, b>>
Plus[p \in (Int \X Int) \X (Int \X Int)] ==
    Nearest[<<p[1][1] + p[2][1], p[1][2] + p[2][2]>>]

\* k * a for an integer k and p = <<k, a>>
Times[p \in Int \X (Int \X Int)] == Nearest[<<p[1] * p[2][1], p[1] * p[2][2]>>]

\* a < b for p = <<a, b>>
Less[p \in (Int \X Int) \X (Int \X Int)] ==
    p[1][1] < p[2][1] \/ (p[1][1] = p[2][1] /\ p[1][2] < p[2][2])

FAdd(a, b) == Plus[<<a, b>>]

FMul(k, a) == Times[<<k, a>>]

FLess(a, b) == Less[<<a, b>>]

\* Math.min(a, b) for p = <<a, b>>
Least[p \in (Int \X Int) \X (Int \X Int)] == IF Less[<<p[2], p[1]>>] THEN p[2] ELSE p[1]

FMin(a, b) == Least[<<a, b>>]

----------------------------------------------------------------------------
(* Dates *)

HoursPerDay == 24

\* Jan 01 2024 is a Monday; getDay() counts from Sunday = 0
EpochDay == 1

getDay(d) == (EpochDay + d \div HoursPerDay) % 7

getHours(d) == d % HoursPerDay

getDate(d) == 1 + d \div HoursPerDay

\* Alphabetical rank of the weekday names "Sun" .. "Sat" that start
\* Date.prototype.toString(): Fri < Mon < Sat < Sun < Thu < Tue < Wed
WeekdayRank == <<4, 2, 6, 7, 5, 1, 3>>

\* Date.prototype.toString() "Www Jan DD 2024 HH:00:00 ...", as its sort key
DateString(d) == <<WeekdayRank[getDay(d) + 1], getDate(d), getHours(d)>>

StringLess(a, b) ==
    \/ a[1] < b[1]
    \/ a[1] = b[1] /\ a[2] < b[2]
    \/ a[1] = b[1] /\ a[2] = b[2] /\ a[3] < b[3]

\* Math.ceil(a / b) for b > 0
Ceil(a, b) == -((-a) \div b)

----------------------------------------------------------------------------
(* Pure helpers over sequences *)

\* a field the stored document does not have reads as undefined
Undefined == -1

\* the number NaN
NaN == -2

\* a + b on numbers: undefined converts to NaN, and NaN absorbs
AddNumber(a, b) ==
    IF a \in {Undefined, NaN} \/ b \in {Undefined, NaN} THEN NaN ELSE a + b

RECURSIVE SumSeq(_)
SumSeq(s) == IF s = <<>> THEN 0 ELSE AddNumber(Head(s), SumSeq(Tail(s)))

RECURSIVE Flatten(_)
Flatten(ss) == IF ss = <<>> THEN <<>> ELSE Head(ss) \o Flatten(Tail(ss))

Contains(s, x) == \E i \in 1..Len(s) : s[i] = x

\* the values of s, each once, in order of first occurrence: the key order of
\* a Map filled by set(), and the element order of [...new Set(s)]
RECURSIVE Distinct(_)
Distinct(s) ==
    IF s = <<>> THEN <<>>
    ELSE LET d == Distinct(SubSeq(s, 1, Len(s) - 1))
             x == s[Len(s)]
         IN  IF Contains(d, x) THEN d ELSE Append(d, x)

MapSeq(s, F(_)) == [i \in 1..Len(s) |-> F(s[i])]

\* Array.prototype.join(', ')
RECURSIVE Join(_)
Join(s) ==
    IF s = <<>> THEN <<>>
    ELSE IF Len(s) = 1 THEN s
    ELSE <<Head(s), ", ">> \o Join(Tail(s))

----------------------------------------------------------------------------
(* The detectors of MLService *)

NoVin == ""

VinOf(c) == c.vin

NameOf(c) == c.claimantName

RegionOf(c) == c.region

AmountOf(c) == c.claimAmount

DateOf(c) == c.incidentDate

\* {...claim, fraudScore, fraudReason, modelId}
Flagged(c, score, reason, model) ==
    [id |-> c.id, vin |-> c.vin, claimantName |-> c.claimantName,
     region |-> c.region, claimAmount |-> c.claimAmount,
     incidentDate |-> c.incidentDate,
     fraudScore |-> score, fraudReason |-> reason, modelId |-> model]

\* group.forEach(claim => suspiciousClaims.push({...claim, ...})) with the
\* score and the reason computed once for the group
FlagAll(group, score, reason, model) ==
    [i \in 1..Len(group) |-> Flagged(group[i], score, reason, model)]

\* mutant: the first member is not counted
groupTotalAmount_SkipsFirst(group) == SumSeq(Tail(MapSeq(group, AmountOf)))

\* group.reduce((sum, c) => sum + c.claimAmount, 0)
groupTotalAmount(group) == SumSeq(MapSeq(group, AmountOf))

calculateTimeSpan(cs) ==
    IF Len(cs) < 2 THEN 0
    ELSE LET dates == MapSeq(cs, DateOf)
             \* dates.sort() has no comparator: it orders the Date objects by
             \* their string form
             firstDate == CHOOSE d \in {dates[i] : i \in 1..Len(dates)} :
                 \A j \in 1..Len(dates) :
                     ~StringLess(DateString(dates[j]), DateString(d))
             lastDate == CHOOSE d \in {dates[i] : i \in 1..Len(dates)} :
                 \A j \in 1..Len(dates) :
                     ~StringLess(DateString(d), DateString(dates[j]))
         IN  Ceil(lastDate - firstDate, HoursPerDay)

\* mutant: claims without a vin are grouped like the others
vinMap_NoVinGrouped(cs) ==
    LET keys == Distinct(MapSeq(cs, VinOf))
    IN  [k \in 1..Len(keys) |->
            <<keys[k], SelectSeq(cs, LAMBDA c : c.vin = keys[k])>>]

\* mutant: the group of a vin is listed once for each of its claims
vinMap_PerClaim(cs) ==
    LET keys == SelectSeq(MapSeq(cs, VinOf), LAMBDA v : v # NoVin)
    IN  [k \in 1..Len(keys) |->
            <<keys[k], SelectSeq(cs, LAMBDA c : c.vin = keys[k])>>]

\* the entries of vinMap in insertion order, each <<vin, vinClaims>>
vinMap(cs) ==
    LET withVin == SelectSeq(cs, LAMBDA c : c.vin # NoVin)
        keys == Distinct(MapSeq(withVin, VinOf))
    IN  [k \in 1..Len(keys) |->
            <<keys[k], SelectSeq(withVin, LAMBDA c : c.vin = keys[k])>>]

\* mutant: the group size is used where the code uses size - 1
vinFraudScore_OffByOne(n) == FMin(Decimal[9], FAdd(Decimal[5], FMul(n, Decimal[2])))

\* mutant: Math.min(0.9, ...) is left out
vinFraudScore_Uncapped(n) == FAdd(Decimal[5], FMul(n - 1, Decimal[2]))

vinFraudScore(n) == FMin(Decimal[9], FAdd(Decimal[5], FMul(n - 1, Decimal[2])))

vinGroupIsDuplicate(vinClaims) == Len(vinClaims) > 1

detectDuplicateVINs(cs) ==
    LET groups == SelectSeq(vinMap(cs), LAMBDA g : vinGroupIsDuplicate(g[2]))
        entries(g) ==
            FlagAll(g[2], vinFraudScore(Len(g[2])),
                    <<"Duplicate VIN detected (", ToString(Len(g[2])), " claims)">>,
                    "duplicate-vin-detector")
        pattern(g) ==
            [type |-> "duplicate_vin", vin |-> g[1], claimCount |-> Len(g[2]),
             totalAmount |-> groupTotalAmount(g[2]),
             timeSpan |-> calculateTimeSpan(g[2])]
    IN  [suspiciousClaims |-> Flatten(MapSeq(groups, entries)),
         patterns |-> MapSeq(groups, pattern)]

\* the entries of claimantMap in insertion order
claimantMap(cs) ==
    LET named == SelectSeq(cs, LAMBDA c : c.claimantName # "")
        keys == Distinct(MapSeq(named, NameOf))
    IN  [k \in 1..Len(keys) |->
            <<keys[k], SelectSeq(named, LAMBDA c : c.claimantName = keys[k])>>]

\* mutant: the region term is left out
claimantFraudScore_NoRegions(n, r) ==
    FMin(Decimal[9], FAdd(Decimal[4], FMul(n - 3, Decimal[1])))

claimantFraudScore(n, r) ==
    FMin(Decimal[9],
         FAdd(FAdd(Decimal[4], FMul(n - 3, Decimal[1])), FMul(r - 1, Decimal[2])))

\* mutant: >= 3 where the code has > 3
claimantGroupIsRepeated_AtLeastThree(claimantClaims) == Len(claimantClaims) >= 3

claimantGroupIsRepeated(claimantClaims) == Len(claimantClaims) > 3

\* mutant: the regions are listed once for each claim
regionsOfGroup_PerClaim(claimantClaims) == MapSeq(claimantClaims, RegionOf)

\* [...new Set(claimantClaims.map(c => c.region))]
regionsOfGroup(claimantClaims) == Distinct(MapSeq(claimantClaims, RegionOf))

detectRepeatedClaimants(cs) ==
    LET groups == SelectSeq(claimantMap(cs),
                            LAMBDA g : claimantGroupIsRepeated(g[2]))
        regionsOf(g) == regionsOfGroup(g[2])
        entries(g) ==
            FlagAll(g[2], claimantFraudScore(Len(g[2]), Len(regionsOf(g))),
                    <<"Repeated claimant (", ToString(Len(g[2])), " claims, ",
                      ToString(Len(regionsOf(g))), " regions)">>,
                    "repeated-claimant-detector")
        pattern(g) ==
            [type |-> "repeated_claimant", claimant |-> g[1],
             claimCount |-> Len(g[2]), regions |-> regionsOf(g),
             totalAmount |-> groupTotalAmount(g[2])]
    IN  [suspiciousClaims |-> Flatten(MapSeq(groups, entries)),
         patterns |-> MapSeq(groups, pattern)]

\* mutant: >= where the code has >
isHighAmount_AtLeast(c, cs) ==
    LET totalAmount == SumSeq(MapSeq(cs, AmountOf))
    IN  /\ AmountOf(c) # Undefined
        /\ totalAmount # NaN
        /\ AmountOf(c) * Len(cs) >= 3 * totalAmount

\* mutant: twice the mean where the code has 3 times
isHighAmount_TwiceMean(c, cs) ==
    LET totalAmount == SumSeq(MapSeq(cs, AmountOf))
    IN  /\ AmountOf(c) # Undefined
        /\ totalAmount # NaN
        /\ AmountOf(c) * Len(cs) > 2 * totalAmount

\* claim.claimAmount > avgAmount * 3 with avgAmount = totalAmount / count.
\* The amounts are whole numbers far below 2^53, so the double comparison
\* decides as the exact one does: amount * count > 3 * totalAmount.
\* A comparison with NaN or of undefined is false.
isHighAmount(c, cs) ==
    LET totalAmount == SumSeq(MapSeq(cs, AmountOf))
    IN  /\ AmountOf(c) # Undefined
        /\ totalAmount # NaN
        /\ AmountOf(c) * Len(cs) > 3 * totalAmount

isWeekend(c) == getDay(DateOf(c)) = 0 \/ getDay(DateOf(c)) = 6

\* mutant: the early hours are not late
isLateNight_EveningOnly(c) == getHours(DateOf(c)) >= 22

isLateNight(c) == getHours(DateOf(c)) >= 22 \/ getHours(DateOf(c)) <= 6

\* mutant: a weekend adds 0.3 where the code adds 0.2
firedRules_WeekendWeight(c, cs) ==
    SelectSeq(<<<<isHighAmount(c, cs), Decimal[3], "Unusually high claim amount">>,
                <<isWeekend(c), Decimal[3], "Claim filed on weekend">>,
                <<isLateNight(c), Decimal[1], "Claim filed late at night">> >>,
              LAMBDA rule : rule[1])

\* the rules of the outlier detector that fire for one claim, in the order
\* the code tests them, each <<contribution, reason>>
firedRules(c, cs) ==
    SelectSeq(<<<<isHighAmount(c, cs), Decimal[3], "Unusually high claim amount">>,
                <<isWeekend(c), Decimal[2], "Claim filed on weekend">>,
                <<isLateNight(c), Decimal[1], "Claim filed late at night">> >>,
              LAMBDA rule : rule[1])

\* fraudScore += contribution, from 0, over the fired rules
RECURSIVE addContributions(_)
addContributions(rules) ==
    IF rules = <<>> THEN Zero
    ELSE FAdd(addContributions(SubSeq(rules, 1, Len(rules) - 1)),
              rules[Len(rules)][2])

ReasonOf(rule) == rule[3]

abnormalFraudScore(c, cs) == addContributions(firedRules(c, cs))

abnormalReasons(c, cs) == MapSeq(firedRules(c, cs), ReasonOf)

\* mutant: a pattern is returned for each claim emitted
detectAbnormalPatterns_WithPatterns(cs) ==
    LET entry(c) ==
            Flagged(c, FMin(Decimal[9], abnormalFraudScore(c, cs)),
                    Join(abnormalReasons(c, cs)), "abnormal-loss-pattern-detector")
        pattern(c) == [type |-> "abnormal_loss", claimCount |-> 1]
        emitted == SelectSeq(cs, LAMBDA c : FLess(Zero, abnormalFraudScore(c, cs)))
    IN  [suspiciousClaims |-> MapSeq(emitted, entry),
         patterns |-> MapSeq(emitted, pattern)]

detectAbnormalPatterns(cs) ==
    LET entry(c) ==
            Flagged(c, FMin(Decimal[9], abnormalFraudScore(c, cs)),
                    Join(abnormalReasons(c, cs)), "abnormal-loss-pattern-detector")
    IN  [suspiciousClaims |->
             MapSeq(SelectSeq(cs, LAMBDA c : FLess(Zero, abnormalFraudScore(c, cs))),
                    entry),
         patterns |-> <<>>]

----------------------------------------------------------------------------
(* MLService: registries, start-up, detectFraud *)

JobIds == <<"claims-amount-anomaly", "claims-frequency-anomaly">>

ModelIds == <<"duplicate-vin-detector", "repeated-claimant-detector",
              "abnormal-loss-pattern-detector">>

\* what the machine-learning API answers where the state of the job leaves
\* it a choice
JobOutcomes == {"served", "getJobsFails", "putJobFails", "openJobFails"}

\* the states of an anomaly job in the cluster
JobStates == {"absent", "closed", "opened"}

\* a cluster without jobs
NoJobs == [j \in {JobIds[k] : k \in 1..Len(JobIds)} |-> "absent"]

\* Map.prototype.set on a Map kept as its key sequence
MapSet(keys, k) == IF Contains(keys, k) THEN keys ELSE Append(keys, k)

\* [jobs after the call, the job states, whether it threw, the calls issued
\* as <<api, job, succeeded>>]
createAnomalyJob(jobs, states, jobId, outcome) ==
    IF states[jobId] # "absent" /\ outcome # "getJobsFails"
    THEN \* getJobs finds the job
         [jobs |-> MapSet(jobs, jobId), states |-> states, threw |-> FALSE,
          issued |-> <<<<"getJobs", jobId, TRUE>>>>]
    ELSE IF states[jobId] # "absent" \/ outcome = "putJobFails"
    THEN \* putJob is rejected: the catch logs and rethrows
         [jobs |-> jobs, states |-> states, threw |-> TRUE,
          issued |-> <<<<"getJobs", jobId, FALSE>>, <<"putJob", jobId, FALSE>>>>]
    ELSE IF outcome = "openJobFails"
    THEN [jobs |-> jobs, states |-> [states EXCEPT ![jobId] = "closed"],
          threw |-> TRUE,
          issued |-> <<<<"getJobs", jobId, FALSE>>, <<"putJob", jobId, TRUE>>,
                       <<"openJob", jobId, FALSE>>>>]
    ELSE [jobs |-> MapSet(jobs, jobId),
          states |-> [states EXCEPT ![jobId] = "opened"], threw |-> FALSE,
          issued |-> <<<<"getJobs", jobId, FALSE>>, <<"putJob", jobId, TRUE>>,
                       <<"openJob", jobId, TRUE>>>>]

RECURSIVE setupAnomalyDetectionJobs(_, _, _, _)
setupAnomalyDetectionJobs(jobs, states, k, outcomes) ==
    IF k > Len(JobIds)
    THEN [jobs |-> jobs, states |-> states, threw |-> FALSE, issued |-> <<>>]
    ELSE LET r == createAnomalyJob(jobs, states, JobIds[k], outcomes[k])
             rest == setupAnomalyDetectionJobs(r.jobs, r.states, k + 1, outcomes)
         IN  IF r.threw THEN r
             ELSE [rest EXCEPT !.issued = r.issued \o @]

RECURSIVE setupFraudDetectionModels(_, _)
setupFraudDetectionModels(models, k) ==
    IF k > Len(ModelIds) THEN models
    ELSE setupFraudDetectionModels(MapSet(models, ModelIds[k]), k + 1)

\* mutant: the flag is set before the set-up
initialize_FlagFirst(jobs, models, init, states, outcomes) ==
    LET a == setupAnomalyDetectionJobs(jobs, states, 1, outcomes)
    IN  [anomalyJobs |-> a.jobs,
         fraudModels |-> IF a.threw THEN models
                         ELSE setupFraudDetectionModels(models, 1),
         initialized |-> TRUE, mlJobs |-> a.states, mlCalls |-> a.issued,
         threw |-> a.threw]

\* the registries and the job states after initialize(), the calls it
\* issued, and whether it rethrew
initialize(jobs, models, init, states, outcomes) ==
    LET a == setupAnomalyDetectionJobs(jobs, states, 1, outcomes)
    IN  IF a.threw
        THEN [anomalyJobs |-> a.jobs, fraudModels |-> models,
              initialized |-> init, mlJobs |-> a.states, mlCalls |-> a.issued,
              threw |-> TRUE]
        ELSE [anomalyJobs |-> a.jobs,
              fraudModels |-> setupFraudDetectionModels(models, 1),
              initialized |-> TRUE, mlJobs |-> a.states, mlCalls |-> a.issued,
              threw |-> FALSE]

\* mutant: the repeated-claimant case of the switch is missing
applyFraudModel_NoClaimantCase(modelId, cs, threshold, throwing) ==
    IF modelId \in throwing THEN [suspiciousClaims |-> <<>>, patterns |-> <<>>]
    ELSE IF modelId = "duplicate-vin-detector" THEN detectDuplicateVINs(cs)
    ELSE IF modelId = "abnormal-loss-pattern-detector" THEN detectAbnormalPatterns(cs)
    ELSE [suspiciousClaims |-> <<>>, patterns |-> <<>>]

\* mutant: entries scoring below the threshold are dropped
applyFraudModel_AboveThreshold(modelId, cs, threshold, throwing) ==
    LET r == IF modelId \in throwing
                  THEN [suspiciousClaims |-> <<>>, patterns |-> <<>>]
             ELSE IF modelId = "duplicate-vin-detector" THEN detectDuplicateVINs(cs)
             ELSE IF modelId = "repeated-claimant-detector"
                  THEN detectRepeatedClaimants(cs)
             ELSE IF modelId = "abnormal-loss-pattern-detector"
                  THEN detectAbnormalPatterns(cs)
             ELSE [suspiciousClaims |-> <<>>, patterns |-> <<>>]
    IN  [suspiciousClaims |->
             SelectSeq(r.suspiciousClaims,
                       LAMBDA e : ~FLess(e.fraudScore, threshold)),
         patterns |-> r.patterns]

\* mutant: what a detector pushed before it threw is returned
applyFraudModel_PartialOutput(modelId, cs, threshold, throwing) ==
    LET r == IF modelId = "duplicate-vin-detector"
                  THEN detectDuplicateVINs(cs)
             ELSE IF modelId = "repeated-claimant-detector"
                  THEN detectRepeatedClaimants(cs)
             ELSE IF modelId = "abnormal-loss-pattern-detector"
                  THEN detectAbnormalPatterns(cs)
             ELSE [suspiciousClaims |-> <<>>, patterns |-> <<>>]
    IN  IF modelId \in throwing
        THEN [suspiciousClaims |-> SubSeq(r.suspiciousClaims, 1, 1),
              patterns |-> <<>>]
        ELSE r

\* `throwing` holds the detectors that throw on this batch: the catch answers
\* for them with two empty lists
applyFraudModel(modelId, cs, threshold, throwing) ==
    IF modelId \in throwing THEN [suspiciousClaims |-> <<>>, patterns |-> <<>>]
    ELSE IF modelId = "duplicate-vin-detector" THEN detectDuplicateVINs(cs)
    ELSE IF modelId = "repeated-claimant-detector" THEN detectRepeatedClaimants(cs)
    ELSE IF modelId = "abnormal-loss-pattern-detector" THEN detectAbnormalPatterns(cs)
    ELSE [suspiciousClaims |-> <<>>, patterns |-> <<>>]

\* mutant: the last entry is not added
SumScores_SkipsLast(es) ==
    LET RECURSIVE upTo(_)
        upTo(k) == IF k = 0 THEN Zero ELSE FAdd(upTo(k - 1), es[k].fraudScore)
    IN  upTo(Len(es) - 1)

\* suspiciousClaims.reduce((sum, claim) => sum + claim.fraudScore, 0)
RECURSIVE SumScores(_)
SumScores(es) ==
    IF es = <<>> THEN Zero
    ELSE FAdd(SumScores(SubSeq(es, 1, Len(es) - 1)), es[Len(es)].fraudScore)

\* the quotient num / den of a double by a count, kept unevaluated
Quotient(num, den) == [num |-> num, den |-> den]

\* new Date() at the call: Tue Jan 09 2024 12:00
NowHour == 8 * HoursPerDay + 12

\* hits of the range query incidentDate >= fromDate, fromDate = now - days
searchSince(idx, days) ==
    SelectSeq(idx, LAMBDA c : c.incidentDate >= NowHour - days * HoursPerDay)

modelResults(models, cs, threshold, throwing) ==
    [k \in 1..Len(models) |-> applyFraudModel(models[k], cs, threshold, throwing)]

suspiciousOf(r) == r.suspiciousClaims

patternsOf(r) == r.patterns

\* what detectFraud returns once every model has been applied
fraudSummary(cs, suspiciousClaims, patterns) ==
    [suspiciousClaims |-> suspiciousClaims,
     totalAnalyzed |-> Len(cs),
     averageFraudScore |->
         IF Len(suspiciousClaims) > 0
         THEN Quotient(SumScores(suspiciousClaims), Len(suspiciousClaims))
         ELSE Quotient(Zero, 1),
     patterns |-> patterns]

\* mutant: totalAnalyzed counts the flagged entries
detectFraud_CountsFlagged(models, cs, threshold, throwing) ==
    LET results == modelResults(models, cs, threshold, throwing)
        suspiciousClaims == Flatten(MapSeq(results, suspiciousOf))
        patterns == Flatten(MapSeq(results, patternsOf))
    IN  [suspiciousClaims |-> suspiciousClaims,
         totalAnalyzed |-> Len(suspiciousClaims),
         averageFraudScore |->
             IF Len(suspiciousClaims) > 0
             THEN Quotient(SumScores(suspiciousClaims), Len(suspiciousClaims))
             ELSE Quotient(Zero, 1),
         patterns |-> patterns]

\* mutant: the sum is divided by the length even when the list is empty
detectFraud_NoEmptyGuard(models, cs, threshold, throwing) ==
    LET results == modelResults(models, cs, threshold, throwing)
        suspiciousClaims == Flatten(MapSeq(results, suspiciousOf))
        patterns == Flatten(MapSeq(results, patternsOf))
    IN  [suspiciousClaims |-> suspiciousClaims,
         totalAnalyzed |-> Len(cs),
         averageFraudScore |->
             Quotient(SumScores(suspiciousClaims), Len(suspiciousClaims)),
         patterns |-> patterns]

detectFraud(models, cs, threshold, throwing) ==
    LET results == modelResults(models, cs, threshold, throwing)
    IN  fraudSummary(cs, Flatten(MapSeq(results, suspiciousOf)),
                     Flatten(MapSeq(results, patternsOf)))

----------------------------------------------------------------------------
(* Inputs of the model *)

Regions == {"Texas", "California", "Florida"}

\* <<claimAmount, incidentDate>> of the claims on the first vehicle:
\* Mon Jan 01 10:00, Fri Jan 05 03:00, Thu Jan 11 10:00 (after the call)
Incidents == {<<100, 10>>, <<250, 4 * HoursPerDay + 3>>, <<100, 10 * HoursPerDay + 10>>}

\* <<claimAmount, incidentDate>> of the claims without a vehicle:
\* Mon Jan 01 10:00 with a zero and a large amount, Sat Jan 06 23:00 with a
\* large amount, Fri Jan 05 03:00 with a zero amount
Losses == {<<0, 10>>, <<1000, 10>>, <<1000, 5 * HoursPerDay + 23>>,
           <<0, 4 * HoursPerDay + 3>>}

\* claimAmount of the claims of the batches with an incomplete document
Amounts == {Undefined, 0, 1000}

Days == {4, 90}

Thresholds == {Decimal[5], Decimal[8]}

Doc(vin, name, region, amount, date) ==
    [vin |-> vin, claimantName |-> name, region |-> region,
     claimAmount |-> amount, incidentDate |-> date]

\* claims on a few vehicles at different dates
VinDocs == {Doc("VIN1", "alice", "Texas", o[1], o[2]) : o \in Incidents}
           \cup {Doc("VIN2", "alice", "Texas", 100, 10),
                 Doc(NoVin, "alice", "Texas", 250, 4 * HoursPerDay + 3)}

\* claims on one vehicle by a few claimants in a few regions, Sun Jan 07 12:00;
\* 300 is 3 times the mean of 300, 100, 0, 0
ClaimantDocs == {Doc("VIN1", "alice", "Texas", 300, 6 * HoursPerDay + 12),
                 Doc("VIN1", "alice", "California", 100, 6 * HoursPerDay + 12),
                 Doc("VIN1", "alice", "Florida", 0, 6 * HoursPerDay + 12),
                 Doc("VIN1", "bob", "Texas", 0, 6 * HoursPerDay + 12)}

\* claims without a vehicle, of different amounts at different times
OutlierDocs == {Doc(NoVin, "alice", "Texas", o[1], o[2]) : o \in Losses}

\* claims without a vehicle of which some have no claimAmount, Mon Jan 08 10:00
IncompleteDocs == {Doc(NoVin, "alice", "Texas", a, 7 * HoursPerDay + 10) : a \in Amounts}

\* the documents as the index holds them: each under its own _id
Stored(docs) ==
    [i \in 1..Len(docs) |->
        [id |-> i, vin |-> docs[i].vin, claimantName |-> docs[i].claimantName,
         region |-> docs[i].region, claimAmount |-> docs[i].claimAmount,
         incidentDate |-> docs[i].incidentDate]]

\* no request yet
NoQuery == [threshold |-> Zero, days |-> 0, throwing |-> {}]

\* no POST answered yet
NoAnswer == [status |-> 0, claim |-> <<>>, posts |-> 0]

NoResults == [suspiciousClaims |-> <<>>, totalAnalyzed |-> 0,
              averageFraudScore |-> Quotient(Zero, 1), patterns |-> <<>>]

----------------------------------------------------------------------------
(* The state machine *)

Init ==
    /\ \/ \E n \in 0..MaxVinBatch : \E docs \in [1..n -> VinDocs] :
              index = Stored(docs)
       \/ \E n \in 0..MaxClaimantBatch : \E docs \in [1..n -> ClaimantDocs] :
              index = Stored(docs)
       \/ \E n \in 0..MaxOutlierBatch : \E docs \in [1..n -> OutlierDocs] :
              index = Stored(docs)
       \/ \E n \in 0..MaxIncompleteBatch : \E docs \in [1..n -> IncompleteDocs] :
              index = Stored(docs)
    /\ serverState = "starting"
    /\ initialized = FALSE
    /\ anomalyJobs = <<>>
    /\ fraudModels = <<>>
    /\ query = NoQuery
    /\ claims = <<>>
    /\ fraudResults = [status |-> 0, body |-> NoResults]
    /\ calls = <<>>
    /\ mlJobs = NoJobs
    /\ mlCalls = <<>>
    /\ rejected = FALSE
    /\ mlEnabled = FALSE
    /\ wrapped = FALSE
    /\ created = NoAnswer

\* server.js startServer: initializeServices, then listen; a failure exits
StartServer ==
    /\ serverState = "starting"
    /\ \/ \* testConnection() fails
          /\ serverState' = "exited"
          /\ UNCHANGED <<initialized, anomalyJobs, fraudModels, cluster>>
       \/ \E outcomes \in [1..Len(JobIds) -> JobOutcomes] :
          \E r \in {initialize(anomalyJobs, fraudModels, initialized, mlJobs,
                               outcomes)} :
              /\ mlJobs' = r.mlJobs
              /\ mlCalls' = r.mlCalls
              /\ rejected' = r.threw
              /\ anomalyJobs' = r.anomalyJobs
              /\ fraudModels' = r.fraudModels
              /\ initialized' = r.initialized
              /\ serverState' = IF r.threw THEN "exited" ELSE "listening"
    /\ UNCHANGED <<index, query, claims, fraudResults, calls, posting>>

\* GET /api/claims/fraud-detection
FraudDetection ==
    /\ serverState = "listening"
    /\ \E threshold \in Thresholds : \E days \in Days :
        /\ query' = [threshold |-> threshold, days |-> days, throwing |-> {}]
        /\ \/ \* the search fails, or result.hits is undefined because the
              \* client answered { body, ... }: detectFraud rethrows, the
              \* route answers 500
              /\ claims' = <<>>
              /\ fraudResults' = [status |-> 500, body |-> NoResults]
           \/ \E cs \in {searchSince(index, days)} :
              \E r \in {detectFraud(fraudModels, cs, threshold, {})} :
                  /\ ~wrapped
                  /\ claims' = cs
                  /\ fraudResults' =
                         [status |-> 200,
                          body |-> [suspiciousClaims |-> r.suspiciousClaims,
                                    totalAnalyzed |-> r.totalAnalyzed,
                                    fraudScore |-> r.averageFraudScore,
                                    patterns |-> r.patterns]]
    /\ UNCHANGED <<index, serverState, initialized, anomalyJobs, fraudModels, calls,
                   cluster, posting>>

Next == StartServer \/ FraudDetection

Spec == Init /\ [][Next]_vars

----------------------------------------------------------------------------
(* detectFraud step by step: invocations interleave at its await points *)

\* two claims on one vehicle, Mon Jan 01 10:00 and Thu Jan 11 10:00
CallDocs == {d \in VinDocs : d.vin = "VIN1" /\ d.claimAmount = 100}

\* an invocation that has not been made
Idle == [pc |-> "idle", query |-> NoQuery, claims |-> <<>>, next |-> 0,
         suspiciousClaims |-> <<>>, patterns |-> <<>>, results |-> NoResults]

\* the server listens after a start-up in which every job was created
InitCalls ==
    /\ \E docs \in [1..MaxCallBatch -> CallDocs] : index = Stored(docs)
    /\ \E r \in {initialize(<<>>, <<>>, FALSE, NoJobs,
                             [k \in 1..Len(JobIds) |-> "served"])} :
        /\ mlJobs = r.mlJobs
        /\ mlCalls = r.mlCalls
        /\ rejected = r.threw
        /\ anomalyJobs = r.anomalyJobs
        /\ fraudModels = r.fraudModels
        /\ initialized = r.initialized
    /\ serverState = "listening"
    /\ query = NoQuery
    /\ claims = <<>>
    /\ fraudResults = [status |-> 0, body |-> NoResults]
    /\ calls = [i \in 1..MaxCalls |-> Idle]
    /\ mlEnabled = FALSE
    /\ wrapped = FALSE
    /\ created = NoAnswer

\* detectFraud(options) up to await elasticClient.search(...)
Call(i) ==
    /\ calls[i].pc = "idle"
    /\ \E threshold \in Thresholds : \E days \in Days :
        calls' = [calls EXCEPT ![i].pc = "searching",
                               ![i].query = [threshold |-> threshold, days |-> days,
                                             throwing |-> {}]]
    /\ UNCHANGED <<index, serverState, initialized, anomalyJobs, fraudModels,
                   query, claims, fraudResults, cluster, posting>>

\* the search resolves: claims, and the two empty lists
SearchReturns(i) ==
    /\ calls[i].pc = "searching"
    /\ calls' = [calls EXCEPT ![i].pc = "applying",
                              ![i].claims = searchSince(index, calls[i].query.days),
                              ![i].next = 1]
    /\ UNCHANGED <<index, serverState, initialized, anomalyJobs, fraudModels,
                   query, claims, fraudResults, cluster, posting>>

\* the search rejects: detectFraud logs and rethrows
SearchFails(i) ==
    /\ calls[i].pc = "searching"
    /\ calls' = [calls EXCEPT ![i].pc = "failed"]
    /\ UNCHANGED <<index, serverState, initialized, anomalyJobs, fraudModels,
                   query, claims, fraudResults, cluster, posting>>

\* mutant: the two lists are shared by the invocations in flight
ApplyModel_SharedLists(i) ==
    /\ calls[i].pc = "applying"
    /\ calls[i].next <= Len(fraudModels)
    /\ \E r \in {applyFraudModel(fraudModels[calls[i].next], calls[i].claims,
                                  calls[i].query.threshold, {})} :
        calls' = [j \in 1..Len(calls) |->
                    IF j = i
                    THEN [calls[j] EXCEPT
                             !.suspiciousClaims = @ \o r.suspiciousClaims,
                             !.patterns = @ \o r.patterns,
                             !.next = @ + 1]
                    ELSE IF calls[j].pc = "applying"
                    THEN [calls[j] EXCEPT
                             !.suspiciousClaims = @ \o r.suspiciousClaims,
                             !.patterns = @ \o r.patterns]
                    ELSE calls[j]]
    /\ UNCHANGED <<index, serverState, initialized, anomalyJobs, fraudModels,
                   query, claims, fraudResults, cluster, posting>>

\* mutant: a model is taken off the registry once it has been applied
ApplyModel_Unregisters(i) ==
    /\ calls[i].pc = "applying"
    /\ calls[i].next <= Len(fraudModels)
    /\ \E r \in {applyFraudModel(fraudModels[calls[i].next], calls[i].claims,
                                  calls[i].query.threshold, {})} :
        calls' = [calls EXCEPT ![i].suspiciousClaims = @ \o r.suspiciousClaims,
                               ![i].patterns = @ \o r.patterns]
    /\ fraudModels' = SelectSeq(fraudModels,
                                LAMBDA m : m # fraudModels[calls[i].next])
    /\ UNCHANGED <<index, serverState, initialized, anomalyJobs,
                   query, claims, fraudResults, cluster, posting>>

\* one turn of the loop over this.fraudModels: await applyFraudModel, push
ApplyModel(i) ==
    /\ calls[i].pc = "applying"
    /\ calls[i].next <= Len(fraudModels)
    /\ \E r \in {applyFraudModel(fraudModels[calls[i].next], calls[i].claims,
                                  calls[i].query.threshold, {})} :
        calls' = [calls EXCEPT ![i].suspiciousClaims = @ \o r.suspiciousClaims,
                               ![i].patterns = @ \o r.patterns,
                               ![i].next = @ + 1]
    /\ UNCHANGED <<index, serverState, initialized, anomalyJobs, fraudModels,
                   query, claims, fraudResults, cluster, posting>>

\* mutant: the entries of the invocations that returned before are kept
Return_KeepsEarlierEntries(i) ==
    /\ calls[i].pc = "applying"
    /\ calls[i].next > Len(fraudModels)
    /\ LET earlier == SelectSeq(calls, LAMBDA c : c.pc = "done")
           kept == Flatten([k \in 1..Len(earlier) |-> earlier[k].results.suspiciousClaims])
       IN  calls' = [calls EXCEPT
                        ![i].pc = "done",
                        ![i].results = fraudSummary(calls[i].claims,
                                                    kept \o calls[i].suspiciousClaims,
                                                    calls[i].patterns)]
    /\ UNCHANGED <<index, serverState, initialized, anomalyJobs, fraudModels,
                   query, claims, fraudResults, cluster, posting>>

\* the loop is over: totalAnalyzed, averageFraudScore, return
Return(i) ==
    /\ calls[i].pc = "applying"
    /\ calls[i].next > Len(fraudModels)
    /\ calls' = [calls EXCEPT
                    ![i].pc = "done",
                    ![i].results = fraudSummary(calls[i].claims,
                                                calls[i].suspiciousClaims,
                                                calls[i].patterns)]
    /\ UNCHANGED <<index, serverState, initialized, anomalyJobs, fraudModels,
                   query, claims, fraudResults, cluster, posting>>

NextCalls ==
    \E i \in 1..MaxCalls :
        Call(i) \/ SearchReturns(i) \/ SearchFails(i) \/ ApplyModel(i) \/ Return(i)

SpecCalls == InitCalls /\ [][NextCalls]_vars

----------------------------------------------------------------------------
(* What a completed detection run shows *)


\* ---------------------------------------------------------------------------
\* The service object: mlService.js exports one MLService per process; server.js
\* initializes it and exports the app whose routes call it. The anomaly jobs
\* live in the cluster and outlive the process.

\* the documents of the index while the service is exercised: four claims on
\* one vehicle, on a Sunday, by two claimants
ServiceIndex ==
    Stored(<<Doc("VIN1", "alice", "Texas", 300, 6 * HoursPerDay + 12),
             Doc("VIN1", "alice", "California", 100, 6 * HoursPerDay + 12),
             Doc("VIN1", "alice", "Florida", 0, 6 * HoursPerDay + 12),
             Doc("VIN1", "alice", "Texas", 0, 6 * HoursPerDay + 12)>>)

InitService ==
    /\ index = ServiceIndex
    /\ serverState = "starting"
    /\ initialized = FALSE
    /\ anomalyJobs = <<>>
    /\ fraudModels = <<>>
    /\ query = NoQuery
    /\ claims = <<>>
    /\ fraudResults = [status |-> 0, body |-> NoResults]
    /\ calls = <<>>
    /\ mlJobs \in [DOMAIN NoJobs -> JobStates]
    /\ mlCalls = <<>>
    /\ rejected = FALSE
    /\ mlEnabled = FALSE
    /\ wrapped = FALSE
    /\ created = NoAnswer

\* mlService.initialize() on the exported object
Initialize ==
    /\ \E outcomes \in [1..Len(JobIds) -> JobOutcomes] :
       \E r \in {initialize(anomalyJobs, fraudModels, initialized, mlJobs,
                            outcomes)} :
           /\ mlJobs' = r.mlJobs
           /\ mlCalls' = r.mlCalls
           /\ rejected' = r.threw
           /\ anomalyJobs' = r.anomalyJobs
           /\ fraudModels' = r.fraudModels
           /\ initialized' = r.initialized
    /\ UNCHANGED <<index, serverState, query, claims, fraudResults, calls, posting>>

\* process.exit(1) and a new process: the constructor runs again, the jobs
\* of the cluster stay
Restart ==
    /\ rejected
    /\ initialized' = FALSE
    /\ anomalyJobs' = <<>>
    /\ fraudModels' = <<>>
    /\ mlCalls' = <<>>
    /\ rejected' = FALSE
    /\ query' = NoQuery
    /\ claims' = <<>>
    /\ fraudResults' = [status |-> 0, body |-> NoResults]
    /\ UNCHANGED <<index, serverState, calls, mlJobs, posting>>

\* mlService.detectFraud({ threshold, days }) on the exported object
DetectFraud ==
    /\ \E threshold \in Thresholds : \E days \in Days :
       \E throwing \in SUBSET {ModelIds[k] : k \in 1..Len(ModelIds)} :
        /\ query' = [threshold |-> threshold, days |-> days, throwing |-> throwing]
        /\ \/ \* the search fails: detectFraud rethrows
              /\ claims' = <<>>
              /\ fraudResults' = [status |-> 500, body |-> NoResults]
           \/ \E cs \in {searchSince(index, days)} :
              \E r \in {detectFraud(fraudModels, cs, threshold, throwing)} :
                  /\ claims' = cs
                  /\ fraudResults' =
                         [status |-> 200,
                          body |-> [suspiciousClaims |-> r.suspiciousClaims,
                                    totalAnalyzed |-> r.totalAnalyzed,
                                    fraudScore |-> r.averageFraudScore,
                                    patterns |-> r.patterns]]
    /\ UNCHANGED <<index, serverState, initialized, anomalyJobs, fraudModels, calls,
                   cluster, posting>>

NextService == Initialize \/ Restart \/ DetectFraud

SpecService == InitService /\ [][NextService]_vars


\* POST /api/claims

\* the request bodies: claimType, vin, claimAmount (Undefined when the field is
\* missing) and a duplicateVinFlag the client may send; the other required
\* fields are present
Bodies ==
    [claimType : {"auto", "home"}, vin : {NoVin, "VIN1"},
     claimAmount : {Undefined, 100}, duplicateVinFlag : BOOLEAN]

\* the calls of the handler that can fail
PostCalls == {"search", "index", "detectAnomalies.index"}

\* validationResult(req).isEmpty()
isValid(body) ==
    /\ body.claimType \in {"auto", "home", "health", "life", "business"}
    /\ body.claimAmount # Undefined
    /\ body.claimAmount >= 0

\* the hits of vinQuery
existingClaims(idx, vin) ==
    SelectSeq(idx, LAMBDA d : d.vin = vin /\ d.claimType = "auto")

\* claimData under the _id the index gives it; claimant, region and
\* incidentDate (Mon Jan 08 10:00) are the same in every request
Indexed(id, claimId, body, flag) ==
    [id |-> id, claimId |-> claimId, vin |-> body.vin, claimantName |-> "alice",
     region |-> "Texas", claimAmount |-> body.claimAmount,
     incidentDate |-> 7 * HoursPerDay + 10, claimType |-> body.claimType,
     duplicateVinFlag |-> flag]

\* the handler: [index after the request, status, claim of the response]
postClaim(idx, body, claimId, enabled, init, isWrapped, failing) ==
    LET checked == body.claimType = "auto" /\ body.vin # NoVin
        flag == body.duplicateVinFlag
                   \/ (checked /\ existingClaims(idx, body.vin) # <<>>)
        first == Append(idx, Indexed(Len(idx) + 1, claimId, body, flag))
        \* detectAnomalies indexes claimData again before it asks the jobs
        second == IF enabled /\ init /\ "detectAnomalies.index" \notin failing
                  THEN Append(first, Indexed(Len(first) + 1, claimId, body, flag))
                  ELSE first
    IN  IF ~isValid(body)
        THEN [index |-> idx, status |-> 400, claim |-> <<>>]
        ELSE IF checked /\ ("search" \in failing \/ isWrapped)
        THEN \* the search throws, or existingClaims.hits is undefined
             [index |-> idx, status |-> 500, claim |-> <<>>]
        ELSE IF "index" \in failing
        THEN [index |-> idx, status |-> 500, claim |-> <<>>]
        ELSE IF ~isWrapped
        THEN \* result.body is undefined: result.body._id throws
             [index |-> second, status |-> 500, claim |-> <<>>]
        ELSE [index |-> second, status |-> 201,
              claim |-> <<Indexed(0, claimId, body, flag)>>]

InitPost ==
    /\ index = <<>>
    /\ serverState = "listening"
    /\ \E r \in {initialize(<<>>, <<>>, FALSE, NoJobs,
                             [k \in 1..Len(JobIds) |-> "served"])} :
        /\ mlJobs = r.mlJobs
        /\ mlCalls = r.mlCalls
        /\ rejected = r.threw
        /\ anomalyJobs = r.anomalyJobs
        /\ fraudModels = r.fraudModels
        /\ initialized = r.initialized
    /\ query = NoQuery
    /\ claims = <<>>
    /\ fraudResults = [status |-> 0, body |-> NoResults]
    /\ calls = <<>>
    /\ mlEnabled \in BOOLEAN
    /\ wrapped \in BOOLEAN
    /\ created = NoAnswer

\* one request; the claimId of the k-th request is k
PostClaim ==
    /\ serverState = "listening"
    /\ created.posts < MaxPosts
    /\ \E body \in Bodies : \E failing \in {{}} \cup {{c} : c \in PostCalls} :
       \E r \in {postClaim(index, body, created.posts + 1, mlEnabled, initialized,
                           wrapped, failing)} :
           /\ index' = r.index
           /\ created' = [status |-> r.status, claim |-> r.claim,
                          posts |-> created.posts + 1]
    /\ UNCHANGED <<serverState, initialized, anomalyJobs, fraudModels, query, claims,
                   fraudResults, calls, cluster, mlEnabled, wrapped>>

NextPost == PostClaim \/ FraudDetection

SpecPost == InitPost /\ [][NextPost]_vars

\* ---------------------------------------------------------------------------
\* ---------------------------------------------------------------------------
\* the last request was answered from a detection run over the batch `claims`
Ran == fraudResults.status = 200

Entries == fraudResults.body.suspiciousClaims

EntriesOf(model) == SelectSeq(Entries, LAMBDA e : e.modelId = model)

Patterns == fraudResults.body.patterns

PatternsOf(type) == SelectSeq(Patterns, LAMBDA p : p.type = type)

\* how many entries of a detector carry the claim id
TimesEmitted(model, id) ==
    Cardinality({k \in 1..Len(Entries) :
                    Entries[k].modelId = model /\ Entries[k].id = id})

Batch == {claims[i] : i \in 1..Len(claims)}

WithVin(v) == {c \in Batch : c.vin = v}

WithName(n) == {c \in Batch : c.claimantName = n}

RegionsOfName(n) == {c.region : c \in WithName(n)}

SharedVins == {v \in {c.vin : c \in Batch} \ {NoVin} : Cardinality(WithVin(v)) >= 2}

RepeatedNames == {n \in {c.claimantName : c \in Batch} : Cardinality(WithName(n)) >= 4}

\* the sum of the amounts of a set of claims: not a number when an amount
\* is missing
RECURSIVE TotalOf(_)
TotalOf(cs) ==
    IF cs = {} THEN 0
    ELSE IF \E x \in cs : x.claimAmount = Undefined THEN NaN
    ELSE LET c == CHOOSE x \in cs : TRUE IN c.claimAmount + TotalOf(cs \ {c})

\* the three outlier conditions, read off the calendar
\* every claim of the batch states an amount
AmountsKnown == \A c \in Batch : c.claimAmount >= 0

\* the batch has a mean only when every amount is known
AboveThreeTimesMean(c) ==
    AmountsKnown /\ c.claimAmount * Cardinality(Batch) > 3 * TotalOf(Batch)

OnSaturdayOrSunday(c) == ((c.incidentDate \div 24) % 7) \in {5, 6}

AtNight(c) == (c.incidentDate % 24) \in (0..6) \cup {22, 23}

\* the double s lies within one unit in the last place of the decimal t/10
NearDecimal(s, t) == s[1] = t /\ s[2] \in -80..80

Minimum(a, b) == IF a < b THEN a ELSE b

----------------------------------------------------------------------------
(* Claims *)

\* C1: every member of a group of n >= 2 claims sharing a vehicle identifier
\* is emitted by the duplicate-identifier detector with one score, exactly 0.7
\* for n = 2 and exactly 0.9 for n >= 3, and with the reason
\* "Duplicate VIN detected (<n> claims)".
Thm_C1 ==
    Ran => \A v \in SharedVins : \A c \in WithVin(v) :
        /\ TimesEmitted("duplicate-vin-detector", c.id) = 1
        /\ \A e \in {Entries[k] : k \in 1..Len(Entries)} :
            (e.modelId = "duplicate-vin-detector" /\ e.id = c.id) =>
                /\ e.fraudScore = IF Cardinality(WithVin(v)) = 2
                                  THEN Decimal[7] ELSE Decimal[9]
                /\ NearDecimal(e.fraudScore,
                               Minimum(9, 5 + 2 * (Cardinality(WithVin(v)) - 1)))
                /\ e.fraudReason = <<"Duplicate VIN detected (",
                                     ToString(Cardinality(WithVin(v))), " claims)">>

Wit_C1 ==
    /\ Ran
    /\ \E v \in SharedVins : Cardinality(WithVin(v)) = 2
    /\ \E k \in 1..Len(Entries) :
        /\ Entries[k].modelId = "duplicate-vin-detector"
        /\ Entries[k].fraudScore = Decimal[7]

\* C2: the repeat-claimant detector emits a claim if and only if its claimant
\* name occurs on more than 3 claims of the batch.
Thm_C2 ==
    Ran => \A c \in Batch :
        (TimesEmitted("repeated-claimant-detector", c.id) > 0)
            <=> (Cardinality(WithName(c.claimantName)) >= 4)

Wit_C2 ==
    /\ Ran
    /\ \E c \in Batch :
        /\ Cardinality(WithName(c.claimantName)) = 4
        /\ TimesEmitted("repeated-claimant-detector", c.id) = 1

\* C3: every member of a claimant group of n > 3 claims in r distinct regions
\* is emitted with the score min(0.9, 0.4 + (n-3)*0.1 + (r-1)*0.2), a double
\* within rounding of that decimal and never above 0.9: exactly 0.5 for 4
\* claims in 1 region and exactly 0.9 for 4 claims in 3 regions; the reason is
\* "Repeated claimant (<n> claims, <r> regions)".
Thm_C3 ==
    Ran => \A n \in RepeatedNames : \A c \in WithName(n) :
        \A e \in {Entries[k] : k \in 1..Len(Entries)} :
            (e.modelId = "repeated-claimant-detector" /\ e.id = c.id) =>
                /\ NearDecimal(e.fraudScore,
                               Minimum(9, 4 + (Cardinality(WithName(n)) - 3)
                                            + 2 * (Cardinality(RegionsOfName(n)) - 1)))
                /\ ~FLess(Decimal[9], e.fraudScore)
                /\ (Cardinality(WithName(n)) = 4 /\ Cardinality(RegionsOfName(n)) = 1)
                       => e.fraudScore = Decimal[5]
                /\ (Cardinality(WithName(n)) = 4 /\ Cardinality(RegionsOfName(n)) = 3)
                       => e.fraudScore = Decimal[9]
                /\ e.fraudReason =
                       <<"Repeated claimant (", ToString(Cardinality(WithName(n))),
                         " claims, ", ToString(Cardinality(RegionsOfName(n))),
                         " regions)">>

Wit_C3 ==
    /\ Ran
    /\ \E n \in RepeatedNames :
        /\ Cardinality(WithName(n)) = 4
        /\ Cardinality(RegionsOfName(n)) = 3
    /\ \E k \in 1..Len(Entries) :
        /\ Entries[k].modelId = "repeated-claimant-detector"
        /\ Entries[k].fraudScore = Decimal[9]

\* C4: the score the outlier detector emits for a claim is 0.3 for an amount
\* above 3 times the batch mean, plus 0.2 for a Saturday or Sunday, plus 0.1
\* for an hour >= 22 or <= 6, up to double rounding; it never exceeds 0.6, so
\* the 0.9 cap does not change it, and with all three it is exactly 0.6.
Thm_C4 ==
    Ran => \A c \in Batch : \A e \in {Entries[k] : k \in 1..Len(Entries)} :
        (e.modelId = "abnormal-loss-pattern-detector" /\ e.id = c.id) =>
            /\ NearDecimal(e.fraudScore,
                           (IF AboveThreeTimesMean(c) THEN 3 ELSE 0)
                           + (IF OnSaturdayOrSunday(c) THEN 2 ELSE 0)
                           + (IF AtNight(c) THEN 1 ELSE 0))
            /\ ~FLess(Decimal[6], e.fraudScore)
            /\ (AboveThreeTimesMean(c) /\ OnSaturdayOrSunday(c) /\ AtNight(c))
                   => e.fraudScore = Decimal[6]

Wit_C4 ==
    /\ Ran
    /\ \E c \in Batch :
        /\ AboveThreeTimesMean(c) /\ OnSaturdayOrSunday(c) /\ AtNight(c)
        /\ \E k \in 1..Len(Entries) :
            /\ Entries[k].modelId = "abnormal-loss-pattern-detector"
            /\ Entries[k].id = c.id
            /\ Entries[k].fraudScore = Decimal[6]

\* C5: the outlier detector emits a claim if and only if the claim triggers at
\* least one of the three conditions (amount, weekend, late night).
Thm_C5 ==
    Ran => \A c \in Batch :
        (TimesEmitted("abnormal-loss-pattern-detector", c.id) > 0)
            <=> (AboveThreeTimesMean(c) \/ OnSaturdayOrSunday(c) \/ AtNight(c))

Wit_C5 ==
    /\ Ran
    /\ \E c \in Batch :
        /\ ~AboveThreeTimesMean(c) /\ ~OnSaturdayOrSunday(c) /\ ~AtNight(c)
        /\ TimesEmitted("abnormal-loss-pattern-detector", c.id) = 0
    /\ \E c \in Batch :
        /\ ~AboveThreeTimesMean(c) /\ ~OnSaturdayOrSunday(c) /\ AtNight(c)
        /\ TimesEmitted("abnormal-loss-pattern-detector", c.id) = 1

\* C6: a claim without a vehicle identifier, or whose identifier occurs on no
\* other claim, is never emitted by the duplicate-identifier detector, and no
\* duplicate pattern carries such an identifier.
Thm_C6 ==
    Ran =>
        /\ \A c \in Batch :
            (c.vin = NoVin \/ Cardinality(WithVin(c.vin)) = 1)
                => TimesEmitted("duplicate-vin-detector", c.id) = 0
        /\ \A k \in 1..Len(Patterns) :
            Patterns[k].type = "duplicate_vin" => Patterns[k].vin \in SharedVins

\* a claim without identifier that the two other detectors emit, in a run in
\* which the duplicate-identifier detector emits other claims
Wit_C6 ==
    /\ Ran
    /\ EntriesOf("duplicate-vin-detector") # <<>>
    /\ \E c \in Batch :
        /\ c.vin = NoVin
        /\ TimesEmitted("duplicate-vin-detector", c.id) = 0
        /\ TimesEmitted("abnormal-loss-pattern-detector", c.id) = 1

\* C7: for every vehicle identifier shared by n >= 2 claims of the batch the
\* duplicate-identifier detector returns exactly one pattern, whose claimCount
\* is n and whose totalAmount is the sum of the n amounts, and n entries.
Thm_C7 ==
    Ran =>
        /\ \A v \in SharedVins :
            /\ Cardinality({k \in 1..Len(Patterns) :
                    Patterns[k].type = "duplicate_vin" /\ Patterns[k].vin = v}) = 1
            /\ \A k \in 1..Len(Patterns) :
                (Patterns[k].type = "duplicate_vin" /\ Patterns[k].vin = v) =>
                    /\ Patterns[k].claimCount = Cardinality(WithVin(v))
                    /\ Patterns[k].totalAmount = TotalOf(WithVin(v))
            /\ Cardinality({k \in 1..Len(Entries) :
                    Entries[k].modelId = "duplicate-vin-detector"
                    /\ Entries[k].vin = v}) = Cardinality(WithVin(v))
        /\ Len(PatternsOf("duplicate_vin")) = Cardinality(SharedVins)

Wit_C7 ==
    /\ Ran
    /\ \E k \in 1..Len(Patterns) :
        /\ Patterns[k].type = "duplicate_vin"
        /\ Patterns[k].claimCount = 3
        /\ Patterns[k].totalAmount = 450
        /\ Cardinality(WithVin(Patterns[k].vin)) = 3

\* C8 (as the spec states it): the timeSpan of a duplicate pattern is the
\* number of days between the earliest and the latest incident of the group,
\* rounded up; it is never negative and does not depend on the batch order.
\* The code sorts the dates as strings, so this fails.
Cex_C8 ==
    Ran => \A k \in 1..Len(Patterns) :
        Patterns[k].type = "duplicate_vin" =>
            LET dates == {c.incidentDate : c \in WithVin(Patterns[k].vin)}
                earliest == CHOOSE d \in dates : \A x \in dates : d <= x
                latest == CHOOSE d \in dates : \A x \in dates : x <= d
            IN  /\ Patterns[k].timeSpan >= 0
                /\ Patterns[k].timeSpan = Ceil(latest - earliest, 24)

\* C9: every entry any detector emits has a score strictly above 0 and not
\* above 0.9.
Thm_C9 ==
    Ran => \A k \in 1..Len(Entries) :
        /\ FLess(Zero, Entries[k].fraudScore)
        /\ ~FLess(Decimal[9], Entries[k].fraudScore)

\* the cap binds: 4 claims sharing an identifier would score 1.1
Wit_C9 ==
    /\ Ran
    /\ \E v \in SharedVins :
        /\ 5 + 2 * (Cardinality(WithVin(v)) - 1) > 9
        /\ \E k \in 1..Len(Entries) :
            /\ Entries[k].vin = v
            /\ Entries[k].modelId = "duplicate-vin-detector"
            /\ Entries[k].fraudScore = Decimal[9]

\* C10: suspiciousClaims is the output of the duplicate-identifier detector,
\* then that of the repeat-claimant detector, then that of the outlier
\* detector; nothing is removed or merged, so a claim that k detectors flag
\* appears k times.
Thm_C10 ==
    Ran =>
        /\ Entries = detectDuplicateVINs(claims).suspiciousClaims
                     \o detectRepeatedClaimants(claims).suspiciousClaims
                     \o detectAbnormalPatterns(claims).suspiciousClaims
        /\ \A c \in Batch :
            Cardinality({k \in 1..Len(Entries) : Entries[k].id = c.id})
                = (IF c.vin \in SharedVins THEN 1 ELSE 0)
                  + (IF c.claimantName \in RepeatedNames THEN 1 ELSE 0)
                  + (IF AboveThreeTimesMean(c) \/ OnSaturdayOrSunday(c) \/ AtNight(c)
                     THEN 1 ELSE 0)

Wit_C10 ==
    /\ Ran
    /\ \E c \in Batch :
        /\ c.vin \in SharedVins
        /\ c.claimantName \in RepeatedNames
        /\ OnSaturdayOrSunday(c)
        /\ Cardinality({k \in 1..Len(Entries) : Entries[k].id = c.id}) = 3

\* the sum of the scores of the entries, in tenths and in the units of e
RECURSIVE TenthsOf(_)
TenthsOf(es) == IF es = <<>> THEN 0 ELSE Head(es).fraudScore[1] + TenthsOf(Tail(es))

RECURSIVE ErrorOf(_)
ErrorOf(es) == IF es = <<>> THEN 0 ELSE Head(es).fraudScore[2] + ErrorOf(Tail(es))

\* the stored claims dated at or after the start of the window of the query
InWindow == {i \in 1..Len(index) :
                index[i].incidentDate >= NowHour - query.days * 24}

\* C11: the fraudScore of the response is the mean of the scores of the
\* returned entries: their sum, added as doubles (exact in the tenths, and
\* within half a unit in the last place for each addition), over their
\* number; it is 0 when there is no entry.
Thm_C11 ==
    Ran =>
        LET mean == fraudResults.body.fraudScore
        IN  IF Entries = <<>>
            THEN mean.num = Zero /\ mean.den = 1
            ELSE /\ mean.den = Len(Entries)
                 /\ mean.num[1] = TenthsOf(Entries)
                 /\ mean.num[2] - ErrorOf(Entries) \in
                        (-640 * Len(Entries))..(640 * Len(Entries))

\* entries of different scores are averaged
Wit_C11 ==
    /\ Ran
    /\ Len(Entries) >= 3
    /\ \E j, k \in 1..Len(Entries) : Entries[j].fraudScore # Entries[k].fraudScore
    /\ fraudResults.body.fraudScore.den = Len(Entries)

\* C12: totalAnalyzed is the number of claims of the filtered batch, whatever
\* the number of entries the detectors emit.
Thm_C12 ==
    Ran =>
        /\ fraudResults.body.totalAnalyzed = Len(claims)
        /\ fraudResults.body.totalAnalyzed = Cardinality(InWindow)

\* a batch of 4 claims with 12 entries, and the count is 4
Wit_C12 ==
    /\ Ran
    /\ Len(claims) = 4
    /\ Len(Entries) = 12
    /\ fraudResults.body.totalAnalyzed = 4

\* C13: a run over an empty batch completes and returns totalAnalyzed 0,
\* fraudScore 0 and no entries and no patterns; each of the three detectors
\* returns nothing for the empty batch.
Thm_C13 ==
    (Ran /\ claims = <<>>) =>
        /\ fraudResults.body.suspiciousClaims = <<>>
        /\ fraudResults.body.patterns = <<>>
        /\ fraudResults.body.totalAnalyzed = 0
        /\ fraudResults.body.fraudScore.num = Zero
        /\ fraudResults.body.fraudScore.den # 0
        /\ \A m \in {ModelIds[k] : k \in 1..Len(ModelIds)} :
            applyFraudModel(m, claims, query.threshold, {})
                = [suspiciousClaims |-> <<>>, patterns |-> <<>>]

\* the index holds claims, none of them in the window
Wit_C13 ==
    /\ Ran
    /\ claims = <<>>
    /\ index # <<>>
    /\ fraudResults.body.totalAnalyzed = 0

\* C14 (as the spec states it): when a claim of the batch has no claimAmount,
\* a run that completes has left that claim out, so that the high-amount rule
\* still applies to the claims that state an amount, measured against their
\* mean.  The code takes the claim into the sum, which becomes NaN.
Cex_C14 ==
    Ran =>
        LET known == {c \in Batch : c.claimAmount # Undefined}
        IN  \A c \in known :
                c.claimAmount * Cardinality(known) > 3 * TotalOf(known)
                    => TimesEmitted("abnormal-loss-pattern-detector", c.id) = 1

\* C17: in one run a claim is in at most one group of the duplicate-identifier
\* detector and at most one group of the repeat-claimant detector: neither
\* detector emits a claim twice, no two patterns of a detector share a key,
\* and the member counts of a detector's patterns add up to at most the
\* batch size.
Thm_C17 ==
    Ran =>
        /\ \A c \in Batch :
            /\ TimesEmitted("duplicate-vin-detector", c.id) <= 1
            /\ TimesEmitted("repeated-claimant-detector", c.id) <= 1
        /\ \A j, k \in 1..Len(Patterns) :
            (j # k /\ Patterns[j].type = Patterns[k].type) =>
                IF Patterns[j].type = "duplicate_vin"
                THEN Patterns[j].vin # Patterns[k].vin
                ELSE Patterns[j].claimant # Patterns[k].claimant
        /\ \A t \in {"duplicate_vin", "repeated_claimant"} :
            LET counts == [k \in 1..Len(PatternsOf(t)) |-> PatternsOf(t)[k].claimCount]
            IN  SumSeq(counts) <= Len(claims)

\* a group and a claim outside it, each member emitted once
Wit_C17 ==
    /\ Ran
    /\ Len(PatternsOf("duplicate_vin")) = 1
    /\ PatternsOf("duplicate_vin")[1].claimCount = 2
    /\ Len(claims) = 3
    /\ Len(EntriesOf("duplicate-vin-detector")) = 2

\* the invocations that have returned
Returned == {i \in 1..Len(calls) : calls[i].pc = "done"}

\* the invocations between two awaits
InFlight == {i \in 1..Len(calls) : calls[i].pc \in {"searching", "applying"}}

\* C15: the threshold does not filter: two invocations that differ only in
\* their threshold return the same suspiciousClaims, totalAnalyzed,
\* averageFraudScore and patterns.
Thm_C15 ==
    \A i, j \in Returned :
        (calls[i].query.days = calls[j].query.days
         /\ calls[i].query.threshold # calls[j].query.threshold)
            => calls[i].results = calls[j].results

\* two thresholds, one answer, with an entry whose score is below the larger
Wit_C15 ==
    \E i, j \in Returned :
        /\ calls[i].query.days = calls[j].query.days
        /\ FLess(calls[i].query.threshold, calls[j].query.threshold)
        /\ calls[i].results = calls[j].results
        /\ \E k \in 1..Len(calls[j].results.suspiciousClaims) :
            FLess(calls[j].results.suspiciousClaims[k].fraudScore,
                  calls[j].query.threshold)

\* C16: two runs of the pipeline over the same batch with the same options
\* return the same entries, scores and reasons in the same order, the same
\* patterns, totalAnalyzed and averageFraudScore.
Thm_C16 ==
    \A i, j \in Returned :
        (calls[i].query = calls[j].query /\ calls[i].claims = calls[j].claims)
            => /\ calls[i].results.suspiciousClaims = calls[j].results.suspiciousClaims
               /\ calls[i].results.patterns = calls[j].results.patterns
               /\ calls[i].results.totalAnalyzed = calls[j].results.totalAnalyzed
               /\ calls[i].results.averageFraudScore
                      = calls[j].results.averageFraudScore

Wit_C16 ==
    \E i, j \in Returned :
        /\ i # j
        /\ calls[i].query = calls[j].query
        /\ calls[i].claims = calls[j].claims
        /\ Len(calls[i].results.suspiciousClaims) = 2
        /\ calls[i].results = calls[j].results

\* C18: an invocation returns what it would return run alone on the index,
\* whatever the other invocations did between its awaits.
Thm_C18 ==
    \A i \in Returned :
        calls[i].results =
            detectFraud(ModelIds, searchSince(index, calls[i].query.days),
                        calls[i].query.threshold, {})

\* one invocation has returned entries while another, with another window,
\* is between two turns of its loop
Wit_C18 ==
    \E i \in Returned : \E j \in InFlight :
        /\ calls[j].pc = "applying"
        /\ calls[j].next = 2
        /\ calls[j].suspiciousClaims # <<>>
        /\ calls[i].query.days # calls[j].query.days
        /\ calls[i].results.totalAnalyzed # Len(calls[j].claims)

\* C19: no step of a detection run changes the registries of the service or
\* the stored claims, a batch once fetched stays as fetched, and every entry
\* returned carries the fields of its stored claim unchanged.
Thm_C19 ==
    [][/\ UNCHANGED <<fraudModels, anomalyJobs, initialized, index>>
       /\ \A i \in 1..Len(calls) :
            calls[i].pc = "applying" => calls'[i].claims = calls[i].claims
       /\ \A i \in 1..Len(calls) :
            calls'[i].pc = "done" =>
                \A k \in 1..Len(calls'[i].results.suspiciousClaims) :
                    LET e == calls'[i].results.suspiciousClaims[k]
                    IN  \E d \in 1..Len(index) :
                            /\ index[d].id = e.id
                            /\ index[d].vin = e.vin
                            /\ index[d].claimantName = e.claimantName
                            /\ index[d].region = e.region
                            /\ index[d].claimAmount = e.claimAmount
                            /\ index[d].incidentDate = e.incidentDate]_vars

\* every invocation has returned, with entries, and the registry holds the
\* three models
Wit_C19 ==
    /\ Returned = 1..MaxCalls
    /\ \A i \in Returned : calls[i].results.suspiciousClaims # <<>>
    /\ fraudModels = ModelIds
    /\ initialized

\* C20 (as the spec states it): every claim of the analysed batch is dated
\* within the window of `days` days that ends at the time of the call.  The
\* query has no upper limit, so this fails for a claim dated after the call.
Cex_C20 ==
    Ran => \A c \in Batch :
        /\ c.incidentDate >= NowHour - query.days * 24
        /\ c.incidentDate <= NowHour

\* the entry the outlier detector returned for the claim names the reason
HasReason(c, reason) ==
    \E k \in 1..Len(Entries) :
        /\ Entries[k].modelId = "abnormal-loss-pattern-detector"
        /\ Entries[k].id = c.id
        /\ \E j \in 1..Len(Entries[k].fraudReason) : Entries[k].fraudReason[j] = reason

\* C21: the repeat-claimant detector returns exactly one pattern for every
\* claimant name with more than 3 claims and none for any other name; the
\* pattern carries the name, claimCount = n, each region of the members once
\* and totalAmount = the sum of the members' amounts.
Thm_C21 ==
    Ran =>
        /\ Len(PatternsOf("repeated_claimant")) = Cardinality(RepeatedNames)
        /\ \A k \in 1..Len(Patterns) :
            Patterns[k].type = "repeated_claimant" =>
                LET p == Patterns[k]
                IN  /\ p.claimant \in RepeatedNames
                    /\ p.claimCount = Cardinality(WithName(p.claimant))
                    /\ Len(p.regions) = Cardinality(RegionsOfName(p.claimant))
                    /\ {p.regions[j] : j \in 1..Len(p.regions)}
                           = RegionsOfName(p.claimant)
                    /\ p.totalAmount = TotalOf(WithName(p.claimant))
        /\ \A n \in RepeatedNames :
            \E k \in 1..Len(Patterns) :
                Patterns[k].type = "repeated_claimant" /\ Patterns[k].claimant = n

\* 4 claims of one claimant in 2 regions, amounts 300 + 300 + 100 + 100
Wit_C21 ==
    /\ Ran
    /\ \E k \in 1..Len(Patterns) :
        /\ Patterns[k].type = "repeated_claimant"
        /\ Patterns[k].claimCount = 4
        /\ Len(Patterns[k].regions) = 2
        /\ Patterns[k].totalAmount = 800

\* C22: the patterns of a run are those of the duplicate-identifier detector
\* followed by those of the repeat-claimant detector; the outlier detector
\* adds none, so their number is the number of identifiers shared by 2 or
\* more claims plus the number of names on more than 3 claims.
Thm_C22 ==
    Ran =>
        /\ Patterns = detectDuplicateVINs(claims).patterns
                      \o detectRepeatedClaimants(claims).patterns
        /\ \A k \in 1..Len(Patterns) :
            Patterns[k].type \in {"duplicate_vin", "repeated_claimant"}
        /\ Len(Patterns) = Cardinality(SharedVins) + Cardinality(RepeatedNames)

\* both kinds of pattern in a run in which the outlier detector emits claims
Wit_C22 ==
    /\ Ran
    /\ Len(Patterns) = 2
    /\ Patterns[1].type = "duplicate_vin"
    /\ Patterns[2].type = "repeated_claimant"
    /\ EntriesOf("abnormal-loss-pattern-detector") # <<>>

\* C23: a claim gets the reason 'Unusually high claim amount' and the 0.3
\* exactly when its amount is above 3 times the mean of the amounts of the
\* whole batch; at exactly 3 times the mean it gets neither.
Thm_C23 ==
    (Ran /\ AmountsKnown) => \A c \in Batch :
        /\ HasReason(c, "Unusually high claim amount")
               <=> c.claimAmount * Len(claims) > 3 * TotalOf(Batch)
        /\ (c.claimAmount * Len(claims) = 3 * TotalOf(Batch)) =>
               \A k \in 1..Len(Entries) :
                   (Entries[k].modelId = "abnormal-loss-pattern-detector"
                    /\ Entries[k].id = c.id)
                       => NearDecimal(Entries[k].fraudScore,
                                      (IF OnSaturdayOrSunday(c) THEN 2 ELSE 0)
                                      + (IF AtNight(c) THEN 1 ELSE 0))

\* 300 in a batch of mean 100 is emitted for the weekend only
Wit_C23 ==
    /\ Ran
    /\ AmountsKnown
    /\ \E c \in Batch :
        /\ c.claimAmount = 300
        /\ c.claimAmount * Len(claims) = 3 * TotalOf(Batch)
        /\ HasReason(c, "Claim filed on weekend")
        /\ ~HasReason(c, "Unusually high claim amount")

\* the outlier entries of the run
OutlierScores ==
    {Entries[k].fraudScore : k \in {j \in 1..Len(Entries) :
        Entries[j].modelId = "abnormal-loss-pattern-detector"}}

\* C30 (amended): in a batch of at most 3 claims with amounts >= 0 no claim
\* gets the high-amount contribution, and every score the outlier detector
\* emits is at most the double 0.2 + 0.1, which is 0.30000000000000004.
Thm_C30 ==
    (Ran /\ AmountsKnown /\ Len(claims) <= 3) =>
        /\ \A c \in Batch : ~HasReason(c, "Unusually high claim amount")
        /\ \A x \in OutlierScores : ~FLess(FAdd(Decimal[2], Decimal[1]), x)

\* a weekend claim late at night in a batch of 3
Wit_C30 ==
    /\ Ran
    /\ AmountsKnown
    /\ Len(claims) = 3
    /\ FAdd(Decimal[2], Decimal[1]) \in OutlierScores

\* C30 (as the spec states it): every score the outlier detector emits for a
\* batch of at most 3 claims is at most 0.3.
Cex_C30 ==
    (Ran /\ AmountsKnown /\ Len(claims) <= 3) =>
        \A x \in OutlierScores : ~FLess(Decimal[3], x)

\* the members of a registry
Registered(keys) == {keys[k] : k \in 1..Len(keys)}

\* the calls of the last initialize() about one job
CallsOn(job, api) == {k \in 1..Len(mlCalls) : mlCalls[k][1] = api /\ mlCalls[k][2] = job}

\* C25: after any sequence of initialize() attempts, whichever job calls
\* fail, a service with initialized = true holds both anomaly jobs and all
\* three fraud models; an initialize() that rejects leaves initialized as it
\* was, so false unless an earlier attempt on the same object succeeded.
Thm_C25 ==
    /\ [](initialized =>
             /\ Registered(anomalyJobs)
                    = {"claims-amount-anomaly", "claims-frequency-anomaly"}
             /\ Registered(fraudModels)
                    = {"duplicate-vin-detector", "repeated-claimant-detector",
                       "abnormal-loss-pattern-detector"})
    /\ [][Initialize /\ rejected' => initialized' = initialized]_vars

\* a rejected attempt that registered the first job only
Wit_C25 == rejected /\ ~initialized /\ Len(anomalyJobs) = 1 /\ fraudModels = <<>>

\* C25 as stated: after an initialize() that rejected, initialized is false
Cex_C25 == rejected => ~initialized

\* no putJob for a job that getJobs found
JobFoundIsNotCreated ==
    \A j \in DOMAIN mlJobs :
        (\E k \in CallsOn(j, "getJobs") : mlCalls[k][3]) => CallsOn(j, "putJob") = {}

\* C26: putJob is never issued for a job that getJobs found, and every job
\* in anomalyJobs has been opened.
Cex_C26 ==
    /\ JobFoundIsNotCreated
    /\ \A j \in Registered(anomalyJobs) : mlJobs[j] = "opened"

\* what the detectors that did not throw emit for the batch, in the order of
\* the registry
EmittedBy(models, throwing, cs) ==
    Flatten([k \in 1..Len(models) |->
                IF models[k] \in throwing THEN <<>>
                ELSE IF models[k] = "duplicate-vin-detector"
                     THEN detectDuplicateVINs(cs).suspiciousClaims
                ELSE IF models[k] = "repeated-claimant-detector"
                     THEN detectRepeatedClaimants(cs).suspiciousClaims
                ELSE detectAbnormalPatterns(cs).suspiciousClaims])

\* C27: when detectors throw on a batch, detectFraud still answers, with
\* the entries of the other registered detectors unchanged and in order,
\* and nothing of a detector that threw.
Thm_C27 ==
    [][(<<query, fraudResults>>' # <<query, fraudResults>> /\ claims' # <<>>) =>
          /\ fraudResults'.status = 200
          /\ fraudResults'.body.suspiciousClaims
                 = EmittedBy(fraudModels', query'.throwing, claims')
          /\ fraudResults'.body.totalAnalyzed = Len(claims')]_vars

\* the claimant detector threw, the other two answered
Wit_C27 ==
    /\ Ran
    /\ Len(fraudModels) = 3
    /\ query.throwing = {"repeated-claimant-detector"}
    /\ EntriesOf("duplicate-vin-detector") # <<>>
    /\ EntriesOf("abnormal-loss-pattern-detector") # <<>>
    /\ EntriesOf("repeated-claimant-detector") = <<>>

\* C28: a call of detectFraud in which no detector throws and that reports
\* analysed claims returns what the three detectors flag in them, whatever
\* the state of the initialization.
Cex_C28 ==
    (Ran /\ query.throwing = {} /\ fraudResults.body.totalAnalyzed > 0) =>
        Entries = EmittedBy(ModelIds, {}, claims)

\* C24: a POST that answers 201 adds exactly one document to the index, and
\* no duplicate-VIN entry of a run is for a claim whose only companions on
\* the vehicle are other documents of the same submission.
Cex_C24 ==
    /\ [](Ran =>
            \A c \in Batch :
                TimesEmitted("duplicate-vin-detector", c.id) > 0
                    => \E d \in WithVin(c.vin) : d.claimId # c.claimId)
    /\ [][(created'.posts # created.posts /\ created'.status = 201)
              => Len(index') = Len(index) + 1]_vars

\* C29: a stored claim has duplicateVinFlag exactly when it is an auto claim
\* with a VIN and the index held an auto claim of an earlier request with
\* the same VIN.
Cex_C29 ==
    \A k \in 1..Len(index) :
        index[k].duplicateVinFlag
            <=> /\ index[k].claimType = "auto"
                /\ index[k].vin # NoVin
                /\ \E j \in 1..(k - 1) :
                       /\ index[j].claimId # index[k].claimId
                       /\ index[j].claimType = "auto"
                       /\ index[j].vin = index[k].vin

\* the parts of C29 about the status: a rejected request stores nothing, and
\* on the build whose client answers { body, ... } a request whose claim was
\* indexed is answered 201 whether or not detectAnomalies failed
PostStatus ==
    [][created'.posts # created.posts =>
          /\ created'.status = 400 => index' = index
          /\ (wrapped /\ index' # index) => created'.status = 201]_vars
====
